---- MODULE Spec2Model ----
(***************************************************************************)
(* A model of hw1/watermark.py: the photo watermark command line tool.     *)
(*                                                                         *)
(* Text (file names, placement names, tag values, date stamps) is a        *)
(* sequence of one-character strings, so that suffix extraction, lower     *)
(* casing, lexicographic ordering, parsing and formatting are computed     *)
(* character by character the way the program computes them.               *)
(*                                                                         *)
(* Four specifications share the module:                                   *)
(*   SpecPlace  place_text_position applied to bounded sizes               *)
(*   SpecDate   get_exif_date and the mtime fallback of process_image      *)
(*   SpecDraw   draw_watermark applied to images of every modelled mode    *)
(*   Spec       main: enumeration, the batch loop, a second run            *)
(***************************************************************************)
EXTENDS Integers, Sequences, FiniteSets, TLC

VARIABLES
    place,      \* SpecPlace: inputs and result of place_text_position
    dres,       \* SpecDate: inputs and result of the date resolution
    draw,       \* SpecDraw: image heap, inputs and result of draw_watermark
    fs,         \* Spec: the file system, [files, dirs]
    env,        \* Spec: what the machine does: fonts, piexif, failing I/O
    args,       \* Spec: the parsed command line
    main,       \* Spec: the locals of main and its position
    hist        \* Spec: the run's number, the file system it started on, the
                \* calls of process_image it made, and what the first run left

vars == <<place, dres, draw, fs, env, args, main, hist>>

\* The variables of main, for the specifications that do not run it.
BatchIdle ==
    /\ fs = [files |-> <<>>, dirs |-> {}]
    /\ env = [fontEnv |-> "truetype"]
    /\ args = [path |-> <<>>]
    /\ main = [pc |-> "idle"]
    /\ hist = [run |-> 0]

(***************************************************************************)
(* Characters and text                                                     *)
(***************************************************************************)

\* The printable ASCII characters in code point order, from 32 (space);
\* punctuation that no modelled text uses is written as its code point.
Ascii ==
    <<
      " ", "#33", "#34", "#35", "#36", "#37", "#38", "#39", "#40", "#41", "#42", "#43",
      "#44", "-", ".", "/", "0", "1", "2", "3", "4", "5", "6", "7",
      "8", "9", ":", "#59", "#60", "#61", "#62", "#63", "#64", "A", "B", "C",
      "D", "E", "F", "G", "H", "I", "J", "K", "L", "M", "N", "O",
      "P", "Q", "R", "S", "T", "U", "V", "W", "X", "Y", "Z", "#91",
      "#92", "#93", "#94", "_", "#96", "a", "b", "c", "d", "e", "f", "g",
      "h", "i", "j", "k", "l", "m", "n", "o", "p", "q", "r", "s",
      "t", "u", "v", "w", "x", "y", "z", "#123", "#124", "#125", "#126"
    >>

\* Whether c is one of these characters (a byte above 127 is not).
IsText(c) ==
    c \in {Ascii[i] : i \in 1..Len(Ascii)}

\* The code point of each character.
CodeTable ==
    [c \in {Ascii[i] : i \in 1..Len(Ascii)} |->
        31 + (CHOOSE i \in 1..Len(Ascii) : Ascii[i] = c)]

\* ord(c)
Ord(c) ==
    CodeTable[c]

\* chr(n): the character with a given code point.
Chr(n) ==
    Ascii[n - 31]

\* The one element of a one-element set.  {f(v) : v \in {e}} computes e once
\* and hands f its value; the model binds intermediate results this way.
The(S) ==
    CHOOSE x \in S : TRUE

\* str.lower() on one character: A..Z map to a..z, the rest is kept.
LowerChar(c) ==
    IF Ord(c) >= 65 /\ Ord(c) <= 90 THEN Chr(Ord(c) + 32) ELSE c

\* str.lower(): character by character.
Lower(s) ==
    [i \in 1..Len(s) |-> LowerChar(s[i])]

(***************************************************************************)
(* place_text_position                                                     *)
(***************************************************************************)

\* The default of the margin parameter; draw_watermark never overrides it.
Margin == 10

TOP_LEFT == <<"t", "o", "p", "-", "l", "e", "f", "t">>
TOP_RIGHT == <<"t", "o", "p", "-", "r", "i", "g", "h", "t">>
BOTTOM_LEFT == <<"b", "o", "t", "t", "o", "m", "-", "l", "e", "f", "t">>
BOTTOM_RIGHT == <<"b", "o", "t", "t", "o", "m", "-", "r", "i", "g", "h", "t">>
CENTER == <<"c", "e", "n", "t", "e", "r">>

\* An anchor whose left/top coordinates forget the margin on the far side.
PlaceTextPositionNoMargin(img_size, text_size, position, margin) ==
    LET iw == img_size[1]
        ih == img_size[2]
        tw == text_size[1]
        th == text_size[2]
    IN  The({
        IF pos = TOP_LEFT \/ pos = <<"t", "l">> THEN <<margin, margin>>
        ELSE IF pos = TOP_RIGHT \/ pos = <<"t", "r">> THEN <<iw - tw, margin>>
        ELSE IF pos = BOTTOM_LEFT \/ pos = <<"b", "l">> THEN <<margin, ih - th>>
        ELSE IF pos = BOTTOM_RIGHT \/ pos = <<"b", "r">> THEN <<iw - tw, ih - th>>
        ELSE IF pos = CENTER \/ pos = <<"c">>
             THEN <<(iw - tw) \div 2, (ih - th) \div 2>>
        ELSE <<margin, margin>>
        : pos \in {Lower(position)} })

\* place_text_position(img_size, text_size, position, margin): the (x, y)
\* anchor.  The // of the source is floor division, which is what \div computes.
PlaceTextPosition(img_size, text_size, position, margin) ==
    LET iw == img_size[1]
        ih == img_size[2]
        tw == text_size[1]
        th == text_size[2]
    IN  The({
        IF pos = TOP_LEFT \/ pos = <<"t", "l">> THEN <<margin, margin>>
        ELSE IF pos = TOP_RIGHT \/ pos = <<"t", "r">>
             THEN <<iw - tw - margin, margin>>
        ELSE IF pos = BOTTOM_LEFT \/ pos = <<"b", "l">>
             THEN <<margin, ih - th - margin>>
        ELSE IF pos = BOTTOM_RIGHT \/ pos = <<"b", "r">>
             THEN <<iw - tw - margin, ih - th - margin>>
        ELSE IF pos = CENTER \/ pos = <<"c">>
             THEN <<(iw - tw) \div 2, (ih - th) \div 2>>
        ELSE <<margin, margin>>
        : pos \in {Lower(position)} })

\* Bounds of SpecPlace: image sides 1..MaxSide and text extents 0..MaxText,
\* plus the sizes of the documented example.
MaxSide == 24
MaxText == 12

ImgWidths == (1..MaxSide) \cup {200}
ImgHeights == {1, MaxSide, 100}
TextWidths == (0..MaxText) \cup {50}
TextHeights == {0, MaxText, 20}

\* Placement names given on the command line: the five names, abbreviations,
\* other letter cases, and names the function does not know.
PlacementNames ==
    {TOP_LEFT, TOP_RIGHT, BOTTOM_LEFT, BOTTOM_RIGHT, CENTER,
     <<"t", "l">>, <<"t", "r">>, <<"b", "l">>, <<"b", "r">>, <<"c">>,
     <<"T", "O", "P", "-", "R", "I", "G", "H", "T">>,
     <<"C", "e", "n", "t", "e", "r">>,
     <<"t", "o", "p">>, <<>>}

InitPlace ==
    /\ \E iw \in ImgWidths, ih \in ImgHeights, tw \in TextWidths,
          th \in TextHeights, p \in PlacementNames :
            place = [pc |-> "call", iw |-> iw, ih |-> ih, tw |-> tw, th |-> th,
                     position |-> p, x |-> 0, y |-> 0]
    /\ dres = [pc |-> "idle"]
    /\ draw = [pc |-> "idle"]
    /\ BatchIdle

\* The call draw_watermark makes: place_text_position(base.size, (w, h), position).
PlaceCall ==
    /\ place.pc = "call"
    /\ LET xy == PlaceTextPosition(<<place.iw, place.ih>>,
                                   <<place.tw, place.th>>, place.position, Margin)
       IN  place' = [place EXCEPT !.pc = "done", !.x = xy[1], !.y = xy[2]]
    /\ UNCHANGED <<dres, draw, fs, env, args, main, hist>>

NextPlace == PlaceCall

SpecPlace == InitPlace /\ [][NextPlace]_vars

(***************************************************************************)
(* Dates: datetime.strptime, datetime.fromisoformat, strftime              *)
(***************************************************************************)

IsDigit(c) ==
    c \in {"0", "1", "2", "3", "4", "5", "6", "7", "8", "9"}

DigitVal(c) ==
    Ord(c) - 48

\* The number of consecutive digits of s from position i on.
DigitRunLen(s, i) ==
    CHOOSE n \in 0..(IF i > Len(s) THEN 0 ELSE Len(s) - i + 1) :
        /\ \A k \in 0..(n - 1) : IsDigit(s[i + k])
        /\ (i + n > Len(s) \/ ~IsDigit(s[i + n]))

\* The value of the n digits of s that start at position i (n is at most 4).
NumAt(s, i, n) ==
    LET dg(k) == IF k <= n THEN DigitVal(s[i + n - k]) ELSE 0
    IN  dg(1) + 10 * dg(2) + 100 * dg(3) + 1000 * dg(4)

\* The number of consecutive blanks of s from position i on.
SpaceRunLen(s, i) ==
    CHOOSE n \in 0..(IF i > Len(s) THEN 0 ELSE Len(s) - i + 1) :
        /\ \A k \in 0..(n - 1) : s[i + k] = " "
        /\ (i + n > Len(s) \/ s[i + n] # " ")

IsLeap(y) ==
    (y % 4 = 0 /\ y % 100 # 0) \/ y % 400 = 0

DaysInMonth(y, m) ==
    IF m = 2 THEN (IF IsLeap(y) THEN 29 ELSE 28)
    ELSE IF m \in {4, 6, 9, 11} THEN 30 ELSE 31

\* What the datetime constructor accepts.
ValidDateTime(y, m, d, hh, mm, ss) ==
    /\ y >= 1 /\ y <= 9999
    /\ m >= 1 /\ m <= 12
    /\ d >= 1 /\ d <= DaysInMonth(y, m)
    /\ hh >= 0 /\ hh <= 23
    /\ mm >= 0 /\ mm <= 59
    /\ ss >= 0 /\ ss <= 59

NoDate == [ok |-> FALSE, y |-> 0, m |-> 0, d |-> 0]

\* A number field of a strptime directive: one or two digits (the directive's
\* pattern prefers two), followed by something that is not a digit.
Field(s, i) ==
    LET n == DigitRunLen(s, i)
    IN  [ok |-> n \in {1, 2}, val |-> IF n \in {1, 2} THEN NumAt(s, i, n) ELSE 0,
         next |-> i + n]

\* datetime.strptime(s, '%Y:%m:%d %H:%M:%S'): %Y is exactly four digits, the
\* other directives one or two, the blank of the format matches one or more
\* blanks, and nothing may follow the seconds.
Strptime(s) ==
    IF DigitRunLen(s, 1) # 4 \/ Len(s) < 5 \/ s[5] # ":" THEN NoDate
    ELSE
    LET y == NumAt(s, 1, 4)
        fm == Field(s, 6)
    IN  IF ~fm.ok \/ fm.next > Len(s) \/ s[fm.next] # ":" THEN NoDate
        ELSE
        LET fd == Field(s, fm.next + 1)
            sp == SpaceRunLen(s, fd.next)
        IN  IF ~fd.ok \/ sp = 0 THEN NoDate
            ELSE
            LET fh == Field(s, fd.next + sp)
            IN  IF ~fh.ok \/ fh.next > Len(s) \/ s[fh.next] # ":" THEN NoDate
                ELSE
                LET fmi == Field(s, fh.next + 1)
                IN  IF ~fmi.ok \/ fmi.next > Len(s) \/ s[fmi.next] # ":" THEN NoDate
                    ELSE
                    LET fsec == Field(s, fmi.next + 1)
                    IN  IF fsec.ok /\ fsec.next = Len(s) + 1
                           /\ ValidDateTime(y, fm.val, fd.val, fh.val, fmi.val, fsec.val)
                        THEN [ok |-> TRUE, y |-> y, m |-> fm.val, d |-> fd.val]
                        ELSE NoDate

\* Two digits at a fixed position.
Fixed2(s, i) ==
    i + 1 <= Len(s) /\ IsDigit(s[i]) /\ IsDigit(s[i + 1])

\* datetime.fromisoformat(s): YYYY-MM-DD, optionally followed by one
\* separator character and HH, HH:MM or HH:MM:SS, all of fixed width.
FromIsoFormat(s) ==
    IF ~(/\ Len(s) \in {10, 13, 16, 19}
         /\ DigitRunLen(s, 1) = 4 /\ s[5] = "-"
         /\ Fixed2(s, 6) /\ s[8] = "-" /\ Fixed2(s, 9)
         /\ (Len(s) >= 13 => Fixed2(s, 12))
         /\ (Len(s) >= 16 => (s[14] = ":" /\ Fixed2(s, 15)))
         /\ (Len(s) >= 19 => (s[17] = ":" /\ Fixed2(s, 18))))
    THEN NoDate
    ELSE
    LET y == NumAt(s, 1, 4)
        m == NumAt(s, 6, 2)
        d == NumAt(s, 9, 2)
        hh == IF Len(s) >= 13 THEN NumAt(s, 12, 2) ELSE 0
        mm == IF Len(s) >= 16 THEN NumAt(s, 15, 2) ELSE 0
        ss == IF Len(s) >= 19 THEN NumAt(s, 18, 2) ELSE 0
    IN  IF ValidDateTime(y, m, d, hh, mm, ss)
        THEN [ok |-> TRUE, y |-> y, m |-> m, d |-> d]
        ELSE NoDate

\* A number as n decimal digits, zero padded.
Pad(v, n) ==
    [i \in 1..n |-> Chr(48 + ((v \div (10 ^ (n - i))) % 10))]

\* dt.strftime('%Y-%m-%d'), for the four-digit years of the model.
Strftime(dt) ==
    Pad(dt.y, 4) \o <<"-">> \o Pad(dt.m, 2) \o <<"-">> \o Pad(dt.d, 2)

\* The number of leap years before year y.
LeapsBefore(y) ==
    (y - 1) \div 4 - (y - 1) \div 100 + (y - 1) \div 400

\* The number of days from 1970-01-01 to 1 January of year y.
DaysBeforeYear(y) ==
    365 * (y - 1970) + LeapsBefore(y) - LeapsBefore(1970)

\* The number of days of year y before its month m.
DaysBeforeMonth(y, m) ==
    LET c == <<0, 31, 59, 90, 120, 151, 181, 212, 243, 273, 304, 334, 365>>
    IN  c[m] + (IF m > 2 /\ IsLeap(y) THEN 1 ELSE 0)

\* datetime.fromtimestamp(st_mtime): the calendar date of a number of seconds
\* since 1970-01-01 (in UTC).
FromTimestamp(secs) ==
    LET days == secs \div 86400
    IN  The({ The({ [ok |-> TRUE, y |-> y, m |-> m,
                     d |-> days - DaysBeforeYear(y) - DaysBeforeMonth(y, m) + 1]
                    : m \in {v \in 1..12 :
                               /\ DaysBeforeMonth(y, v) <= days - DaysBeforeYear(y)
                               /\ days - DaysBeforeYear(y) < DaysBeforeMonth(y, v + 1)} })
              : y \in {v \in 1970..2105 :
                         DaysBeforeYear(v) <= days /\ days < DaysBeforeYear(v + 1)} })

(***************************************************************************)
(* get_exif_date                                                           *)
(***************************************************************************)

NoneDate == [some |-> FALSE, text |-> <<>>]

SomeDate(t) == [some |-> TRUE, text |-> t]

\* bytes.decode('utf-8', errors='ignore'): bytes that are no text are dropped.
Decode(b) ==
    SelectSeq(b, IsText)

\* The two parse attempts made on a tag value: the EXIF format, then ISO-8601,
\* then None.
ParseTag(val) ==
    The({ IF a.ok THEN SomeDate(Strftime(a))
          ELSE The({ IF b.ok THEN SomeDate(Strftime(b)) ELSE NoneDate
                     : b \in {FromIsoFormat(val)} })
          : a \in {Strptime(val)} })

\* The piexif branch.  exif maps the tags that are present to their bytes;
\* loadOk is whether piexif.load returned.
GetExifDatePiexif(loadOk, exif) ==
    IF ~loadOk THEN NoneDate
    ELSE
    LET dto0 == IF "DateTimeOriginal" \in DOMAIN exif
                THEN exif["DateTimeOriginal"] ELSE <<>>
        dto == IF dto0 = <<>> /\ "DateTime" \in DOMAIN exif
               THEN exif["DateTime"] ELSE dto0
    IN  IF dto # <<>> THEN The({ParseTag(v) : v \in {Decode(dto)}}) ELSE NoneDate

\* The PIL branch.  loadOk is whether Image.open and _getexif returned.  The
\* loop returns at the first tag that is present, parsed or not; a value that
\* is bytes is decoded as in the other branch.
GetExifDatePIL(loadOk, exif) ==
    IF ~loadOk THEN NoneDate
    ELSE IF DOMAIN exif = {} THEN NoneDate
    ELSE IF "DateTimeOriginal" \in DOMAIN exif
         THEN The({ParseTag(v) : v \in {Decode(exif["DateTimeOriginal"])}})
    ELSE IF "DateTime" \in DOMAIN exif
         THEN The({ParseTag(v) : v \in {Decode(exif["DateTime"])}})
    ELSE NoneDate

GetExifDate(hasPiexif, loadOk, exif) ==
    IF hasPiexif THEN GetExifDatePiexif(loadOk, exif)
    ELSE GetExifDatePIL(loadOk, exif)

\* The first lines of process_image: the EXIF date, or else the date of the
\* file's modification time; path.stat() may raise.
ResolveDate(hasPiexif, loadOk, exif, statOk, mtime) ==
    The({ IF date.some /\ date.text # <<>> THEN [raised |-> FALSE, text |-> date.text]
          ELSE IF ~statOk THEN [raised |-> TRUE, text |-> <<>>]
          ELSE [raised |-> FALSE,
                text |-> The({Strftime(dt) : dt \in {FromTimestamp(mtime)}})]
          : date \in {GetExifDate(hasPiexif, loadOk, exif)} })

(***************************************************************************)
(* SpecDate: the date resolution applied to bounded tag contents           *)
(***************************************************************************)

\* "2023:05:17 10:00:00"
T_EXIF_A == <<"2", "0", "2", "3", ":", "0", "5", ":", "1", "7", " ", "1", "0", ":", "0", "0", ":", "0", "0">>
\* "2021:12:31 23:59:59"
T_EXIF_B == <<"2", "0", "2", "1", ":", "1", "2", ":", "3", "1", " ", "2", "3", ":", "5", "9", ":", "5", "9">>
\* "2024:2:29 1:2:3": fields without zero padding, which strptime accepts
T_EXIF_SHORT == <<"2", "0", "2", "4", ":", "2", ":", "2", "9", " ", "1", ":", "2", ":", "3">>
\* "2022:01:09 07:08:09" followed by a byte that is no text
T_EXIF_BYTES == <<"2", "0", "2", "2", ":", "0", "1", ":", "0", "9", " ", "0", "7", ":", "0", "8", ":", "0", "9", "#255">>
\* "2020-02-29T08:30:00"
T_ISO == <<"2", "0", "2", "0", "-", "0", "2", "-", "2", "9", "T", "0", "8", ":", "3", "0", ":", "0", "0">>
\* "2023:02:30 10:00:00": no such day
T_BAD_DAY == <<"2", "0", "2", "3", ":", "0", "2", ":", "3", "0", " ", "1", "0", ":", "0", "0", ":", "0", "0">>
\* "unknown"
T_JUNK == <<"u", "n", "k", "n", "o", "w", "n">>
\* ""
T_EMPTY == <<>>

ValidTags == {T_EXIF_A, T_EXIF_B, T_EXIF_SHORT, T_EXIF_BYTES, T_ISO}
MalformedTags == {T_BAD_DAY, T_JUNK}
TagContents == ValidTags \cup MalformedTags \cup {T_EMPTY}

TagNames == {"DateTimeOriginal", "DateTime"}

\* Every EXIF dictionary: each tag absent or present with one of the contents.
ExifDicts == UNION {[D -> TagContents] : D \in SUBSET TagNames}

\* Modification times, in seconds: 1970-01-01, 2000-02-29, 2023-12-31 23:59:59.
MTimes == {0, 951782400, 1704067199}

InitDate ==
    /\ \E hp \in BOOLEAN, lo \in BOOLEAN, ex \in ExifDicts, so \in BOOLEAN,
          mt \in MTimes :
            dres = [pc |-> "call", hasPiexif |-> hp, loadOk |-> lo, exif |-> ex,
                    statOk |-> so, mtime |-> mt, raised |-> FALSE, text |-> <<>>]
    /\ place = [pc |-> "idle"]
    /\ draw = [pc |-> "idle"]
    /\ BatchIdle

\* process_image, up to `text = date`.
DateCall ==
    /\ dres.pc = "call"
    /\ \E r \in {ResolveDate(dres.hasPiexif, dres.loadOk, dres.exif,
                            dres.statOk, dres.mtime)} :
           dres' = [dres EXCEPT !.pc = "done", !.raised = r.raised, !.text = r.text]
    /\ UNCHANGED <<place, draw, fs, env, args, main, hist>>

NextDate == DateCall

SpecDate == InitDate /\ [][NextDate]_vars

(***************************************************************************)
(* C4, C10: the fallback chain and the two metadata back-ends              *)
(***************************************************************************)

\* A tag yields a valid date: it is present and one of the two formats parses.
TagDate(ex, tag) ==
    IF tag \in DOMAIN ex THEN The({ParseTag(v) : v \in {Decode(ex[tag])}}) ELSE NoneDate

\* The date of the first source, in the order DateTimeOriginal, DateTime,
\* modification time, that yields one; a metadata error counts as absence.
FirstValidDate ==
    LET a == TagDate(dres.exif, "DateTimeOriginal")
        b == TagDate(dres.exif, "DateTime")
    IN  IF dres.loadOk /\ a.some THEN a.text
        ELSE IF dres.loadOk /\ b.some THEN b.text
        ELSE The({Strftime(dt) : dt \in {FromTimestamp(dres.mtime)}})

\* YYYY-MM-DD: ten characters, digits around two hyphens, a month and a day
\* of the calendar.
WellFormedDate(t) ==
    /\ Len(t) = 10
    /\ t[5] = "-" /\ t[8] = "-"
    /\ \A i \in {1, 2, 3, 4, 6, 7, 9, 10} : IsDigit(t[i])
    /\ NumAt(t, 6, 2) \in 1..12
    /\ NumAt(t, 9, 2) \in 1..31

\* C4 as stated: whenever the modification time can be read the stamped
\* date is the date of the first source that yields a valid date, and it is
\* well formed.
C4_Original ==
    (dres.pc = "done" /\ dres.statOk) =>
        /\ ~dres.raised
        /\ dres.text = FirstValidDate
        /\ WellFormedDate(dres.text)

\* The part of C4 that the code keeps: whatever is stamped is well formed, and
\* a valid DateTimeOriginal always wins.
C4_Kept ==
    (dres.pc = "done" /\ ~dres.raised) =>
        /\ WellFormedDate(dres.text)
        /\ (dres.loadOk /\ TagDate(dres.exif, "DateTimeOriginal").some)
              => dres.text = FirstValidDate

\* DateTimeOriginal is unusable, DateTime is valid, and the modification
\* time was stamped.
C4_Witness ==
    /\ dres.pc = "done"
    /\ dres.loadOk
    /\ "DateTimeOriginal" \in DOMAIN dres.exif
    /\ dres.exif["DateTimeOriginal"] = T_JUNK
    /\ "DateTime" \in DOMAIN dres.exif
    /\ dres.exif["DateTime"] = T_EXIF_A
    /\ dres.text = The({Strftime(dt) : dt \in {FromTimestamp(dres.mtime)}})

\* C10 as stated: the piexif branch and the PIL branch return the same date
\* for the same tags.
C10_Original ==
    dres.pc = "done" =>
        GetExifDatePiexif(dres.loadOk, dres.exif) = GetExifDatePIL(dres.loadOk, dres.exif)

\* The two branches agree unless DateTimeOriginal is present and empty
\* while DateTime is present and not empty.
C10_Kept ==
    (dres.pc = "done"
        /\ ~(/\ TagNames \subseteq DOMAIN dres.exif
             /\ dres.exif["DateTimeOriginal"] = <<>>
             /\ dres.exif["DateTime"] # <<>>)) =>
        GetExifDatePiexif(dres.loadOk, dres.exif) = GetExifDatePIL(dres.loadOk, dres.exif)

\* An empty DateTimeOriginal beside a valid DateTime: stamped through piexif,
\* not through PIL.
C10_Witness ==
    /\ dres.pc = "done"
    /\ dres.loadOk
    /\ dres.exif = [t \in TagNames |-> IF t = "DateTime" THEN T_EXIF_A ELSE <<>>]
    /\ GetExifDatePiexif(dres.loadOk, dres.exif).some
    /\ ~GetExifDatePIL(dres.loadOk, dres.exif).some


(***************************************************************************)
(* ensure_font, measure_text, draw_watermark                               *)
(***************************************************************************)

\* What the machine offers ensure_font: a TrueType file at one of the four
\* candidate paths, or only PIL's built-in font, or no font at all.
FontEnvs == {"truetype", "default", "none"}

\* ensure_font(font_size): the first candidate that loads, else the built-in
\* font, else RuntimeError.
EnsureFont(fontEnv, font_size) ==
    IF fontEnv = "truetype"
    THEN [raised |-> FALSE, font |-> [kind |-> "truetype", size |-> font_size]]
    ELSE IF fontEnv = "default"
    THEN [raised |-> FALSE, font |-> [kind |-> "default", size |-> 11]]
    ELSE [raised |-> TRUE, font |-> [kind |-> "none", size |-> 0]]

\* measure_text(draw, text, font): the extent of the rendered text.  The
\* glyph metrics belong to the font library; the model takes glyphs of height
\* font.size and of width font.size \div 2 + 1.
MeasureText(text, font) ==
    <<Len(text) * (font.size \div 2 + 1), font.size>>

\* Images are objects of a heap (a sequence, an image's identity being its
\* index).  via is the PIL call that made the object, px what its pixels
\* derive from, loads whether its pixel data can be decoded when first needed.
MkImage(mode, w, h, via, px) ==
    [mode |-> mode, w |-> w, h |-> h, via |-> via, px |-> px, loads |-> TRUE]

\* The outline color of draw_watermark.
OutlineColor == <<0, 0, 0, 200>>

\* The five draw.text calls on the overlay: four outline copies, then the text.
TextDraws(x, y, text, color) ==
    << [x |-> x - 1, y |-> y - 1, text |-> text, fill |-> OutlineColor],
       [x |-> x - 1, y |-> y + 1, text |-> text, fill |-> OutlineColor],
       [x |-> x + 1, y |-> y - 1, text |-> text, fill |-> OutlineColor],
       [x |-> x + 1, y |-> y + 1, text |-> text, fill |-> OutlineColor],
       [x |-> x, y |-> y, text |-> text, fill |-> color] >>

\* Image.alpha_composite(base, overlay): the overlay's drawings over the base.
\* Pixels are [orig, draws]: the picture they started as and the text drawn
\* over it since.
AlphaComposite(base_px, over_px) ==
    [orig |-> base_px.orig, draws |-> base_px.draws \o over_px.draws]

\* draw_watermark that returns the composite without converting it back.
DrawWatermarkNoConvertBack(heap, image, text, font_size, color, position, fontEnv) ==
    LET src == heap[image]
        base == MkImage("RGBA", src.w, src.h,
                        IF src.mode # "RGBA" THEN "convert" ELSE "copy", src.px)
        f == EnsureFont(fontEnv, font_size)
        ts == MeasureText(text, f.font)
    IN  IF ~src.loads THEN [raised |-> TRUE, err |-> "decode", heap |-> heap, out |-> 0]
        ELSE IF f.raised
        THEN [raised |-> TRUE, err |-> "font", heap |-> heap \o <<base>>, out |-> 0]
        ELSE The({
            LET txt == MkImage("RGBA", base.w, base.h, "new",
                               [orig |-> <<>>,
                                draws |-> TextDraws(xy[1], xy[2], text, color)])
                out == MkImage("RGBA", base.w, base.h, "alpha_composite",
                               AlphaComposite(base.px, txt.px))
            IN  [raised |-> FALSE, err |-> "", heap |-> heap \o <<base, txt, out>>,
                 out |-> Len(heap) + 3]
            : xy \in {PlaceTextPosition(<<base.w, base.h>>, ts, position, Margin)} })

\* draw_watermark(image, text, font_size, color, position): image is the
\* index of the source in the heap; the result names the new heap and the
\* index of the image returned, or the exception that left the function.
DrawWatermark(heap, image, text, font_size, color, position, fontEnv) ==
    LET src == heap[image]
        base == MkImage("RGBA", src.w, src.h,
                        IF src.mode # "RGBA" THEN "convert" ELSE "copy", src.px)
        f == EnsureFont(fontEnv, font_size)
        ts == MeasureText(text, f.font)
    IN  IF ~src.loads THEN [raised |-> TRUE, err |-> "decode", heap |-> heap, out |-> 0]
        ELSE IF f.raised
        THEN [raised |-> TRUE, err |-> "font", heap |-> heap \o <<base>>, out |-> 0]
        ELSE The({
            LET txt == MkImage("RGBA", base.w, base.h, "new",
                               [orig |-> <<>>,
                                draws |-> TextDraws(xy[1], xy[2], text, color)])
                out == MkImage("RGBA", base.w, base.h, "alpha_composite",
                               AlphaComposite(base.px, txt.px))
                back == MkImage(src.mode, out.w, out.h, "convert", out.px)
            IN  IF src.mode # "RGBA"
                THEN [raised |-> FALSE, err |-> "",
                      heap |-> heap \o <<base, txt, out, back>>, out |-> Len(heap) + 4]
                ELSE [raised |-> FALSE, err |-> "",
                      heap |-> heap \o <<base, txt, out>>, out |-> Len(heap) + 3]
            : xy \in {PlaceTextPosition(<<base.w, base.h>>, ts, position, Margin)} })

(***************************************************************************)
(* SpecDraw: draw_watermark applied to one image                           *)
(***************************************************************************)

\* Color modes of PIL images.
Modes == {"1", "L", "P", "RGB", "RGBA", "CMYK"}

White == <<255, 255, 255, 255>>

\* "2023-05-17"
StampText == <<"2", "0", "2", "3", "-", "0", "5", "-", "1", "7">>

\* The default of --font-size, and the size its help text names.
FontSizes == {10, 36}

InitDraw ==
    /\ \E mode \in Modes, w \in {1, MaxSide, 200}, h \in ImgHeights,
          ld \in BOOLEAN, fe \in FontEnvs, fsz \in FontSizes,
          p \in PlacementNames :
            draw = [pc |-> "call",
                    heap |-> <<[MkImage(mode, w, h, "open", [orig |-> <<"s">>, draws |-> <<>>])
                                  EXCEPT !.loads = ld]>>,
                    position |-> p, font_size |-> fsz, fontEnv |-> fe,
                    raised |-> FALSE, out |-> 0]
    /\ place = [pc |-> "idle"]
    /\ dres = [pc |-> "idle"]
    /\ BatchIdle

\* The call process_image makes: draw_watermark(img, text, font_size, color, position).
DrawCall ==
    /\ draw.pc = "call"
    /\ \E r \in {DrawWatermark(draw.heap, 1, StampText, draw.font_size, White,
                              draw.position, draw.fontEnv)} :
           draw' = [draw EXCEPT !.pc = "done", !.heap = r.heap,
                                !.raised = r.raised, !.out = r.out]
    /\ UNCHANGED <<place, dres, fs, env, args, main, hist>>

NextDraw == DrawCall

SpecDraw == InitDraw /\ [][NextDraw]_vars

(***************************************************************************)
(* C9: mode preservation                                                   *)
(***************************************************************************)

\* C9: when draw_watermark returns, the image returned is a new object with
\* the mode and the size of the source; the working copy (the first object
\* made) is RGBA; the result is a conversion exactly when the source was not
\* RGBA, and else the composite itself; the source object is unchanged.
C9_ModePreserved ==
    (draw.pc = "done" /\ ~draw.raised) =>
        LET src == draw.heap[1]
            res == draw.heap[draw.out]
        IN  /\ draw.out # 1
            /\ res.mode = src.mode
            /\ res.w = src.w /\ res.h = src.h
            /\ draw.heap[2].mode = "RGBA"
            /\ draw.heap[2].via = (IF src.mode = "RGBA" THEN "copy" ELSE "convert")
            /\ res.via = (IF src.mode = "RGBA" THEN "alpha_composite" ELSE "convert")
            /\ src.via = "open" /\ src.px = [orig |-> <<"s">>, draws |-> <<>>]

\* A grayscale source came back grayscale, through an RGBA composite.
C9_Witness ==
    /\ draw.pc = "done"
    /\ ~draw.raised
    /\ draw.heap[1].mode = "L"
    /\ draw.heap[draw.out].mode = "L"
    /\ draw.heap[draw.out - 1].mode = "RGBA"
    /\ Len(draw.heap[draw.out].px.draws) = 5


(***************************************************************************)
(* Paths and the file system                                               *)
(***************************************************************************)

\* A file name is text; a path is the sequence of its names.

\* SUPPORTED_EXTS
SUPPORTED_EXTS ==
    { <<".", "j", "p", "g">>,
      <<".", "j", "p", "e", "g">>,
      <<".", "p", "n", "g">>,
      <<".", "t", "i", "f", "f">>,
      <<".", "t", "i", "f">>,
      <<".", "w", "e", "b", "p">>,
      <<".", "b", "m", "p">> }

\* str.rfind(c): the last position where s holds c, or 0.
RFind(s, c) ==
    LET at == {j \in 1..Len(s) : s[j] = c}
    IN  IF at = {} THEN 0 ELSE CHOOSE j \in at : \A k \in at : k <= j

\* PurePath.suffix: the name from its last dot on, unless that dot is the
\* first or the last character of the name (or there is none).
Suffix(name) ==
    LET j == RFind(name, ".")
    IN  IF 1 < j /\ j < Len(name) THEN SubSeq(name, j, Len(name)) ELSE <<>>

\* path.name and path.parent
NameOf(path) ==
    path[Len(path)]

Parent(path) ==
    SubSeq(path, 1, Len(path) - 1)

\* base / name as pathlib joins it: an empty name and "." add nothing.
JoinPath(base, name) ==
    IF name = <<>> \/ name = <<".">> THEN base ELSE Append(base, name)

\* str < str: lexicographic by code point.
TextLess(a, b) ==
    \E k \in 1..(Len(b)) :
        /\ k <= Len(a) + 1
        /\ \A i \in 1..(k - 1) : a[i] = b[i]
        /\ (k = Len(a) + 1 \/ Ord(a[k]) < Ord(b[k]))

\* Path < Path for two children of one directory.
PathLess(p, q) ==
    TextLess(NameOf(p), NameOf(q))

\* sorted(paths): each path at the rank the number of lesser paths gives it.
Sorted(S) ==
    [i \in 1..Cardinality(S) |->
        CHOOSE p \in S : Cardinality({q \in S : PathLess(q, p)}) = i - 1]

\* input_path.iterdir(): the direct children, files and directories.
IterDir(files, dirs, d) ==
    {p \in DOMAIN files \cup dirs : Len(p) = Len(d) + 1 /\ Parent(p) = d}

\* A gather_targets that compares the suffix without lower casing it.
GatherTargetsCaseSensitive(files, dirs, input_path) ==
    IF input_path \in dirs
    THEN The({ SelectSeq(Sorted(children),
                         LAMBDA f : /\ f \in DOMAIN files
                                    /\ Suffix(NameOf(f)) \in SUPPORTED_EXTS)
               : children \in {IterDir(files, dirs, input_path)} })
    ELSE IF input_path \in DOMAIN files
    THEN (IF Suffix(NameOf(input_path)) \in SUPPORTED_EXTS
          THEN <<input_path>> ELSE <<>>)
    ELSE <<>>

\* list(gather_targets(input_path))
GatherTargets(files, dirs, input_path) ==
    IF input_path \in dirs
    THEN The({ SelectSeq(Sorted(children),
                         LAMBDA f : /\ f \in DOMAIN files
                                    /\ Lower(Suffix(NameOf(f))) \in SUPPORTED_EXTS)
               : children \in {IterDir(files, dirs, input_path)} })
    ELSE IF input_path \in DOMAIN files
    THEN (IF Lower(Suffix(NameOf(input_path))) \in SUPPORTED_EXTS
          THEN <<input_path>> ELSE <<>>)
    ELSE <<>>

(***************************************************************************)
(* process_image                                                           *)
(***************************************************************************)

\* The time at which the tool runs: what a written file gets as its mtime.
NowTime == 1704067199

\* The EXIF dictionary of a file without tags (PIL's save writes none).
NoExif == [t \in {} |-> <<>>]

\* An exception raised in the try block, and the state it leaves behind.
Throw(fsys, what) ==
    [thrown |-> what, out_path |-> <<>>, fs |-> fsys]

\* The try block: the date; Image.open; draw_watermark; out_dir.mkdir;
\* out_img.save.  thrown names the exception that ended the block, "" if none.
TryBlock(fsys, e, path, font_size, color, position, out_dir) ==
    LET c == fsys.files[path]
        img == [MkImage(c.mode, c.w, c.h, "open", c.px)
                  EXCEPT !.loads = (c.kind = "image")]
        out_path == Append(out_dir, NameOf(path))
        made == [fsys EXCEPT !.dirs = fsys.dirs \cup {out_dir}]
    IN  The({
        IF date.raised THEN Throw(fsys, "stat")
        ELSE IF c.kind \notin {"image", "truncated"} THEN Throw(fsys, "open")
        ELSE The({
            IF w.raised THEN Throw(fsys, w.err)
            ELSE IF out_dir \in DOMAIN fsys.files THEN Throw(fsys, "mkdir")
            ELSE IF out_dir \notin fsys.dirs /\ ~e.mkdirOk THEN Throw(fsys, "mkdir")
            ELSE IF out_path \in made.dirs \/ NameOf(path) \in e.unwritable
            THEN Throw(made, "save")
            ELSE LET out_img == w.heap[w.out]
                     saved == [kind |-> "image", mode |-> out_img.mode,
                               w |-> out_img.w, h |-> out_img.h, exif |-> NoExif,
                               mtime |-> NowTime, px |-> out_img.px]
                 IN  [thrown |-> "", out_path |-> out_path,
                      fs |-> [files |-> [q \in DOMAIN fsys.files \cup {out_path} |->
                                            IF q = out_path THEN saved
                                            ELSE fsys.files[q]],
                              dirs |-> made.dirs]]
            : w \in {DrawWatermark(<<img>>, 1, date.text, font_size, color,
                                    position, e.fontEnv)} })
        : date \in {ResolveDate(e.hasPiexif, c.kind \in {"image", "truncated"},
                                c.exif, NameOf(path) \notin e.noStat, c.mtime)} })

\* What a call of process_image comes to: the tuple (path, ok, message) it
\* returns, the message reduced to its kind, or (raised) an exception that
\* leaves it; and the file system after it.
Returned(r, path) ==
    IF r.thrown = ""
    THEN [raised |-> FALSE, path |-> r.out_path, ok |-> TRUE, msg |-> "Saved", fs |-> r.fs]
    ELSE [raised |-> FALSE, path |-> path, ok |-> FALSE, msg |-> r.thrown, fs |-> r.fs]

Escaped(r, path) ==
    [raised |-> TRUE, path |-> path, ok |-> FALSE, msg |-> r.thrown, fs |-> r.fs]

\* A process_image without its except clause.
ProcessImageNoExcept(fsys, e, path, font_size, color, position, out_dir) ==
    The({ IF r.thrown = "" THEN Returned(r, path) ELSE Escaped(r, path)
          : r \in {TryBlock(fsys, e, path, font_size, color, position, out_dir)} })

\* A process_image out of which the RuntimeError of ensure_font escapes.
ProcessImageFontFatal(fsys, e, path, font_size, color, position, out_dir) ==
    The({ IF r.thrown = "font" THEN Escaped(r, path) ELSE Returned(r, path)
          : r \in {TryBlock(fsys, e, path, font_size, color, position, out_dir)} })

\* process_image(path, font_size, color, position, out_dir): the except
\* clause catches every Exception of the try block.
ProcessImage(fsys, e, path, font_size, color, position, out_dir) ==
    The({ Returned(r, path)
          : r \in {TryBlock(fsys, e, path, font_size, color, position, out_dir)} })

(***************************************************************************)
(* Spec: main                                                              *)
(***************************************************************************)

\* Bounds: how many image files the directory may hold, and how many times
\* the tool is run on it.
MaxFiles == 2
MaxRuns == 2

N_DIR == <<"d">>
N_TXT == <<"c", ".", "t", "x", "t">>
N_HIDDEN == <<".", "b", "m", "p">>
N_SUB == <<"s", "u", "b">>
N_NESTED == <<"n", ".", "j", "p", "g">>
N_DIRTIF == <<"e", ".", "t", "i", "f">>
N_MISSING == <<"x", ".", "j", "p", "g">>
N_WATERMARK == <<"_", "w", "a", "t", "e", "r", "m", "a", "r", "k">>

\* The names image files may have, and those the directory may hold.
ImageNames ==
    << <<"a", ".", "j", "p", "g">>,
       <<"B", ".", "P", "N", "G">>,
       <<"c", ".", "T", "I", "F">>,
       <<"d", ".", "w", "e", "b", "p">>,
       <<"E", ".", "J", "p", "e", "g">> >>

Candidates == {ImageNames[i] : i \in 1..MaxFiles}

\* The directory the tool is pointed at.
D == <<N_DIR>>

\* What a file holds.  kind: "image" decodes; "truncated" opens but its pixel
\* data does not load; "garbage" and "text" are no images.
Pixels(name) == [orig |-> name, draws |-> <<>>]

Content(kind, mode, w, h, exif, mtime, name) ==
    [kind |-> kind, mode |-> mode, w |-> w, h |-> h, exif |-> exif,
     mtime |-> mtime, px |-> Pixels(name)]

\* What an image file of the directory is like.
Conditions == {"absent", "good", "gray", "garbage", "truncated", "nostat", "unwritable"}

ContentOf(cond, name) ==
    IF cond \in {"good", "unwritable"}
    THEN Content("image", "RGB", 200, 100,
                 [t \in {"DateTimeOriginal"} |-> T_EXIF_A], 951782400, name)
    ELSE IF cond \in {"gray", "nostat"}
    THEN Content("image", "L", 24, 24, NoExif, 951782400, name)
    ELSE IF cond = "truncated"
    THEN Content("truncated", "RGB", 200, 100,
                 [t \in {"DateTime"} |-> T_ISO], 0, name)
    ELSE Content("garbage", "", 0, 0, NoExif, 0, name)

\* The files beside the images: a text file, a hidden file whose whole name
\* is an extension, and an image nested in a subdirectory.
ClutterFiles ==
    {Append(D, N_TXT), Append(D, N_HIDDEN), <<N_DIR, N_SUB, N_NESTED>>}

\* The directories beside the images; one has the name of an image.
ClutterDirs ==
    {Append(D, N_SUB), Append(D, N_DIRTIF)}

InitialFs(cond, clutter) ==
    LET imgs == {Append(D, n) : n \in {m \in Candidates : cond[m] # "absent"}}
        others == IF clutter THEN ClutterFiles ELSE {}
    IN  [files |-> [p \in imgs \cup others |->
                       IF p \in imgs THEN ContentOf(cond[NameOf(p)], NameOf(p))
                       ELSE IF NameOf(p) = N_TXT
                       THEN Content("text", "", 0, 0, NoExif, 0, NameOf(p))
                       ELSE ContentOf("good", NameOf(p))],
         dirs |-> {<<>>, D} \cup (IF clutter THEN ClutterDirs ELSE {})]

\* The machines: the usual one with and without piexif, one without any font,
\* one where the output directory cannot be created.
UsualMachines ==
    { [fontEnv |-> "truetype", mkdirOk |-> TRUE, hasPiexif |-> TRUE],
      [fontEnv |-> "default", mkdirOk |-> TRUE, hasPiexif |-> FALSE] }

NoFontMachine ==
    [fontEnv |-> "none", mkdirOk |-> TRUE, hasPiexif |-> TRUE]

NoMkdirMachine ==
    [fontEnv |-> "truetype", mkdirOk |-> FALSE, hasPiexif |-> FALSE]

\* The path argument: the directory, an image in it, a text file in it, and
\* a path that does not exist.
InputPaths ==
    {D, Append(D, ImageNames[1]), Append(D, N_TXT), Append(D, N_MISSING)}

\* The --out-subdir argument: the default, the empty name, ".", and the name
\* of a file that may exist.
OutSubdirs == {N_WATERMARK, <<>>, <<".">>, N_TXT}

MainStart ==
    [pc |-> "start", out_dir |-> <<>>, targets |-> <<>>, idx |-> 0, success |-> 0,
     results |-> <<>>, summary |-> <<0, 0>>, outcome |-> ""]

\* The machine and the --out-subdir of a run: every name on the usual
\* machines, the default and "." without a font, the default and the name of
\* a file where no directory can be created.
Setups ==
    (UsualMachines \X OutSubdirs)
    \cup ({NoFontMachine} \X {N_WATERMARK, <<".">>})
    \cup ({NoMkdirMachine} \X {N_WATERMARK, N_TXT})

\* The conditions of the files after the first.
RestConditions == {"absent", "good", "garbage", "truncated"}

\* A run starts on a directory of images, the first in any condition, or on
\* one path in it: an image in any condition, a text file, or a path that
\* does not exist.
InitialConds ==
    { [path |-> D, cond |-> c]
      : c \in { k \in [Candidates -> Conditions] :
                  \A n \in Candidates \ {ImageNames[1]} : k[n] \in RestConditions } }
    \cup
    { [path |-> ip, cond |-> [n \in Candidates |->
                                IF n = ImageNames[1] THEN c1 ELSE "good"]]
      : ip \in InputPaths \ {D}, c1 \in Conditions }

Init ==
    /\ \E ic \in InitialConds, clutter \in BOOLEAN, su \in Setups :
            \E fs0 \in {InitialFs(ic.cond, clutter)}, m \in {su[1]} :
                /\ fs = fs0
                /\ env = [fontEnv |-> m.fontEnv, mkdirOk |-> m.mkdirOk,
                          hasPiexif |-> m.hasPiexif,
                          noStat |-> {n \in Candidates : ic.cond[n] = "nostat"},
                          unwritable |-> {n \in Candidates : ic.cond[n] = "unwritable"}]
                /\ args = [path |-> ic.path, font_size |-> 10, color |-> White,
                           position |-> BOTTOM_RIGHT, out_subdir |-> su[2]]
                /\ hist = [run |-> 1, start |-> fs0, calls |-> <<>>,
                           first |-> [targets |-> <<>>, paths |-> {}]]
    /\ main = MainStart
    /\ place = [pc |-> "idle"]
    /\ dres = [pc |-> "idle"]
    /\ draw = [pc |-> "idle"]

\* input_path.exists(), is_dir()
Exists(path) == path \in DOMAIN fs.files \cup fs.dirs

\* base_dir / args.out_subdir
OutDir ==
    JoinPath(IF args.path \in fs.dirs THEN args.path ELSE Parent(args.path),
             args.out_subdir)

\* main: the path does not exist; a message, and return.
MainNotFound ==
    /\ main.pc = "start"
    /\ ~Exists(args.path)
    /\ main' = [main EXCEPT !.pc = "done", !.outcome = "not found"]
    /\ UNCHANGED <<place, dres, draw, fs, env, args, hist>>

\* A main that makes the output directory before it lists the targets.
MainNoTargetsMkdirFirst ==
    /\ main.pc = "start"
    /\ Exists(args.path)
    /\ \E targets \in {GatherTargets(fs.files, fs.dirs, args.path)} :
          /\ targets = <<>>
          /\ main' = [main EXCEPT !.pc = "done", !.outcome = "no targets",
                                  !.out_dir = OutDir]
          /\ fs' = [fs EXCEPT !.dirs = @ \cup {OutDir}]
    /\ UNCHANGED <<place, dres, draw, env, args, hist>>

\* main: no supported image; a message, and return.
MainNoTargets ==
    /\ main.pc = "start"
    /\ Exists(args.path)
    /\ \E targets \in {GatherTargets(fs.files, fs.dirs, args.path)} :
          /\ targets = <<>>
          /\ main' = [main EXCEPT !.pc = "done", !.outcome = "no targets",
                                  !.out_dir = OutDir]
    /\ UNCHANGED <<place, dres, draw, fs, env, args, hist>>

\* main: the targets are listed and the loop is entered.
MainFound ==
    /\ main.pc = "start"
    /\ Exists(args.path)
    /\ \E targets \in {GatherTargets(fs.files, fs.dirs, args.path)} :
          /\ targets # <<>>
          /\ main' = [main EXCEPT !.pc = "loop", !.out_dir = OutDir, !.idx = 1,
                                  !.targets = targets]
    /\ UNCHANGED <<place, dres, draw, fs, env, args, hist>>

\* One turn of the loop: process_image on the next target, its message
\* printed, success counted.  An exception that left process_image would
\* leave main too.
LoopBody ==
    /\ main.pc = "loop"
    /\ main.idx <= Len(main.targets)
    /\ \E t \in {main.targets[main.idx]} :
       \E r \in {ProcessImage(fs, env, t, args.font_size, args.color,
                               args.position, main.out_dir)} :
           /\ fs' = r.fs
           /\ hist' = [hist EXCEPT !.calls = Append(@, t)]
           /\ main' = IF r.raised
                      THEN [main EXCEPT !.pc = "crashed", !.outcome = r.msg]
                      ELSE [main EXCEPT
                              !.results = Append(@, [path |-> r.path, ok |-> r.ok,
                                                     msg |-> r.msg]),
                              !.success = IF r.ok THEN @ + 1 ELSE @,
                              !.idx = @ + 1]
    /\ UNCHANGED <<place, dres, draw, env, args>>

\* After the loop: the summary line.
MainDone ==
    /\ main.pc = "loop"
    /\ main.idx > Len(main.targets)
    /\ main' = [main EXCEPT !.pc = "done", !.outcome = "processed",
                            !.summary = <<main.success, Len(main.targets)>>]
    /\ UNCHANGED <<place, dres, draw, fs, env, args, hist>>

\* The tool is run again with the same command line.
Rerun ==
    /\ main.pc = "done"
    /\ hist.run < MaxRuns
    /\ hist' = [hist EXCEPT !.run = @ + 1, !.start = fs, !.calls = <<>>,
                            !.first = IF hist.run = 1
                                      THEN [targets |-> main.targets,
                                            paths |-> DOMAIN fs.files \cup fs.dirs]
                                      ELSE @]
    /\ main' = MainStart
    /\ UNCHANGED <<place, dres, draw, fs, env, args>>

Next ==
    \/ MainNotFound
    \/ MainNoTargets
    \/ MainFound
    \/ LoopBody
    \/ MainDone
    \/ Rerun

Spec == Init /\ [][Next]_vars


(***************************************************************************)
(* The batch: C1, C2, C3, C6, C7, C8                                       *)
(***************************************************************************)

\* The targets of this run, and those process_image was called on so far.
Targets == {main.targets[i] : i \in 1..Len(main.targets)}

Called == {hist.calls[i] : i \in 1..Len(hist.calls)}

\* The run listed its targets (it did not stop at a path that does not exist).
Listed ==
    main.pc \in {"loop", "done"} /\ main.outcome # "not found"

\* The run went through its loop to the summary line.
Finished ==
    main.pc = "done" /\ main.outcome = "processed"

\* The file held a decodable image when the run started and its date can be
\* resolved: draw_watermark is reached with it.
Decodable(t) ==
    /\ t \in DOMAIN hist.start.files
    /\ hist.start.files[t].kind = "image"
    /\ NameOf(t) \notin env.noStat

\* C1: failure isolation.  No exception leaves process_image, so none leaves
\* main; process_image is called once per target in the order of the list,
\* each call adds one result, and the summary counts the results with ok and
\* the targets.
C1_FailureIsolation ==
    /\ main.pc # "crashed"
    /\ hist.calls = SubSeq(main.targets, 1, Len(hist.calls))
    /\ Len(main.results) = Len(hist.calls)
    /\ main.success = Cardinality({i \in 1..Len(main.results) : main.results[i].ok})
    /\ main.pc = "loop" => main.idx = Len(hist.calls) + 1
    /\ Finished =>
          /\ hist.calls = main.targets
          /\ main.summary = <<Cardinality({i \in 1..Len(main.results) :
                                              main.results[i].ok}),
                              Len(main.targets)>>

\* A finished run in which a file failed and a later file was processed.
C1_Witness ==
    /\ Finished
    /\ \E i, j \in 1..Len(main.results) :
          /\ i < j
          /\ ~main.results[i].ok
          /\ main.results[j].ok
    /\ main.summary[1] < main.summary[2]

\* C2, as the specification states it: after a run, for any --out-subdir,
\* every target holds what it held before the run, and every copy was written
\* to a path that is no target.
C2_SourcesUntouched ==
    Finished =>
        /\ \A t \in Targets : fs.files[t] = hist.start.files[t]
        /\ \A i \in 1..Len(main.results) :
              main.results[i].ok => main.results[i].path \notin Targets

\* C2, what holds: the targets are untouched when --out-subdir names a
\* directory other than the one the targets are in.
C2_Kept ==
    (Listed /\ args.out_subdir \notin {<<>>, <<".">>}) =>
        /\ \A t \in Targets : fs.files[t] = hist.start.files[t]
        /\ \A i \in 1..Len(main.results) :
              main.results[i].ok => main.results[i].path \notin Targets

\* A finished run with --out-subdir "." whose copy replaced its source.
C2_Witness ==
    /\ Finished
    /\ args.out_subdir = <<".">>
    /\ \E i \in 1..Len(main.results) :
          /\ main.results[i].ok
          /\ main.results[i].path = main.targets[i]
          /\ fs.files[main.targets[i]] # hist.start.files[main.targets[i]]

Eligible(n) ==
    \E e \in SUPPORTED_EXTS :
        /\ Len(n) > Len(e)
        /\ Lower(SubSeq(n, Len(n) - Len(e) + 1, Len(n))) = e

\* C6: enumeration.  For a directory the targets are the files directly in
\* it with a supported extension, in strictly increasing order of name; for
\* a file, the file itself iff its extension is supported; else nothing.
C6_Enumeration ==
    /\ Listed =>
          IF args.path \in hist.start.dirs
          THEN /\ Targets = {p \in DOMAIN hist.start.files :
                                /\ Len(p) = Len(args.path) + 1
                                /\ SubSeq(p, 1, Len(args.path)) = args.path
                                /\ Eligible(p[Len(p)])}
               /\ \A i, j \in 1..Len(main.targets) :
                     i < j => TextLess(NameOf(main.targets[i]), NameOf(main.targets[j]))
          ELSE IF args.path \in DOMAIN hist.start.files
          THEN main.targets = IF Eligible(NameOf(args.path))
                              THEN <<args.path>> ELSE <<>>
          ELSE main.targets = <<>>
    /\ main.outcome = "not found" => main.targets = <<>>
    /\ main.outcome = "no targets" <=> (main.pc = "done" /\ Listed /\ main.targets = <<>>)

\* A directory with an upper-case extension, a text file, a hidden file named
\* like an extension, a subdirectory named like an image and a nested image:
\* two targets, the upper-case name first.
C6_Witness ==
    /\ main.pc = "loop"
    /\ args.path = D
    /\ ClutterFiles \subseteq DOMAIN hist.start.files
    /\ ClutterDirs \subseteq hist.start.dirs
    /\ main.targets = <<Append(D, ImageNames[2]), Append(D, ImageNames[1])>>

\* C7, as the specification states it: a second run lists the targets of the
\* first, none of them a file the first run wrote; it writes each copy to
\* out_dir / name; it leaves the set of paths as the first run left it; and
\* making the output directory again does not fail.
C7_RerunIdempotent ==
    (hist.run >= 2 /\ Listed) =>
        /\ main.targets = hist.first.targets
        /\ \A t \in Targets : hist.start.files[t].px.draws = <<>>
        /\ \A i \in 1..Len(main.results) :
              /\ main.results[i].ok =>
                    main.results[i].path = Append(main.out_dir, NameOf(main.targets[i]))
              /\ main.results[i].msg = "mkdir" => main.out_dir \notin hist.start.dirs
        /\ main.pc = "done" => DOMAIN fs.files \cup fs.dirs = hist.first.paths

\* C7, what holds: the same, except that with --out-subdir "" or "." the
\* targets of the second run are the files the first run wrote.
C7_Kept ==
    (hist.run >= 2 /\ Listed) =>
        /\ main.targets = hist.first.targets
        /\ args.out_subdir \notin {<<>>, <<".">>} =>
              \A t \in Targets : hist.start.files[t].px.draws = <<>>
        /\ \A i \in 1..Len(main.results) :
              /\ main.results[i].ok =>
                    main.results[i].path = Append(main.out_dir, NameOf(main.targets[i]))
              /\ main.results[i].msg = "mkdir" => main.out_dir \notin hist.start.dirs
        /\ main.pc = "done" => DOMAIN fs.files \cup fs.dirs = hist.first.paths

\* A second run that stamps a file the first run wrote.
C7_Witness ==
    /\ hist.run = 2
    /\ Finished
    /\ \E i \in 1..Len(main.results) :
          /\ main.results[i].ok
          /\ hist.start.files[main.targets[i]].px.draws # <<>>
          /\ Len(fs.files[main.targets[i]].px.draws) >
                Len(hist.start.files[main.targets[i]].px.draws)

\* C8: no targets, no effects.  A run that stops at a missing path or at an
\* empty list of targets leaves the file system as it was; and whatever a run
\* changes, the output directory included, it changes after process_image
\* was called on a file that decodes, with a font to render.
C8_NoTargetsNoEffects ==
    /\ main.outcome \in {"not found", "no targets"} => fs = hist.start
    /\ fs # hist.start =>
          /\ env.fontEnv # "none"
          /\ \E t \in Called : Decodable(t)
    /\ (main.out_dir \in fs.dirs /\ main.out_dir \notin hist.start.dirs) =>
          \E i \in 1..Len(main.results) : main.results[i].msg \in {"Saved", "save"}

\* A directory with only a text file, a hidden file and subdirectories: the
\* run is over, nothing listed, no output directory.
C8_Witness ==
    /\ main.pc = "done"
    /\ main.outcome = "no targets"
    /\ args.path = D
    /\ Append(D, N_TXT) \in DOMAIN fs.files
    /\ main.out_dir = Append(D, N_WATERMARK)
    /\ main.out_dir \notin fs.dirs

\* A run in which the first file does not decode and the second does: the
\* output directory is there after the second only.
C8_WitnessLater ==
    /\ Finished
    /\ Len(main.results) = 2
    /\ main.results[1].msg = "open"
    /\ main.results[2].ok
    /\ main.out_dir \in fs.dirs /\ main.out_dir \notin hist.start.dirs


(***************************************************************************)
(* C5: placement                                                           *)
(***************************************************************************)

PlacedLeft == Lower(place.position) \in {TOP_LEFT, BOTTOM_LEFT, <<"t", "l">>, <<"b", "l">>}
PlacedRight == Lower(place.position) \in {TOP_RIGHT, BOTTOM_RIGHT, <<"t", "r">>, <<"b", "r">>}
PlacedTop == Lower(place.position) \in {TOP_LEFT, TOP_RIGHT, <<"t", "l">>, <<"t", "r">>}
PlacedBottom == Lower(place.position) \in {BOTTOM_LEFT, BOTTOM_RIGHT, <<"b", "l">>, <<"b", "r">>}
PlacedCenter == Lower(place.position) \in {CENTER, <<"c">>}
PlacedUnknown == ~(PlacedLeft \/ PlacedRight \/ PlacedCenter)

\* The text box lies inside the image.
BoxInside ==
    /\ 0 <= place.x
    /\ place.x + place.tw <= place.iw
    /\ 0 <= place.y
    /\ place.y + place.th <= place.ih

\* Exactly `margin` pixels lie between the box and the edges of the corner asked for.
CornerMargins ==
    /\ PlacedLeft => place.x = Margin
    /\ PlacedRight => place.iw - (place.x + place.tw) = Margin
    /\ PlacedTop => place.y = Margin
    /\ PlacedBottom => place.ih - (place.y + place.th) = Margin

\* For center the two gaps on each axis differ by at most 1.
CenterGaps ==
    PlacedCenter =>
        LET gl == place.x
            gr == place.iw - (place.x + place.tw)
            gt == place.y
            gb == place.ih - (place.y + place.th)
        IN  /\ gl - gr \in {-1, 0, 1}
            /\ gt - gb \in {-1, 0, 1}

UnknownIsTopLeft ==
    PlacedUnknown => (place.x = Margin /\ place.y = Margin)

\* C5 as stated: for every image size and text extent the box is inside the
\* image, with exact margins at corners, balanced gaps at center, and the
\* top-left anchor for an unknown name.
C5_Original ==
    place.pc = "done" =>
        (BoxInside /\ CornerMargins /\ CenterGaps /\ UnknownIsTopLeft)

\* C5 amended: the box is inside the image exactly when the text plus one
\* margin fits on each axis (corner and unknown placements) or the text fits
\* (center); for every size the corner margins are exact, the center gaps
\* differ by at most 1, and an unknown name gives (margin, margin).
C5_Placement ==
    place.pc = "done" =>
        /\ ~PlacedCenter =>
              (BoxInside <=> (place.tw + Margin <= place.iw /\ place.th + Margin <= place.ih))
        /\ PlacedCenter =>
              (BoxInside <=> (place.tw <= place.iw /\ place.th <= place.ih))
        /\ CornerMargins
        /\ CenterGaps
        /\ UnknownIsTopLeft

\* The documented example: (200, 100), text (50, 20), bottom-right -> (140, 70).
C5_Witness ==
    /\ place.pc = "done"
    /\ place.position = BOTTOM_RIGHT
    /\ place.iw = 200 /\ place.ih = 100 /\ place.tw = 50 /\ place.th = 20
    /\ place.x = 140 /\ place.y = 70
    /\ BoxInside

\* Center with an odd difference, and a text wider than the image.
C5_WitnessCenter ==
    /\ place.pc = "done"
    /\ PlacedCenter
    /\ place.tw > place.iw
    /\ (place.ih - place.th) % 2 = 1
    /\ place.x < 0

====
